---------------------------- MODULE Spec2Model ----------------------------
(***************************************************************************)
(* Model of shadow_defective.py: the ShadowDetectiveApp window (the UI     *)
(* thread), the APIWorker thread it starts per analysis run, and the pure  *)
(* helpers they use (prompt substitution, error classification, EXIF GPS   *)
(* conversion).                                                            *)
(*                                                                         *)
(* Text is a sequence of one-character strings, so that strip(), replace() *)
(* and the `in` substring test are computed as Python computes them.       *)
(***************************************************************************)
EXTENDS Integers, Sequences, FiniteSets, TLC

(***************************************************************************)
(* Bounds of the model.                                                    *)
(***************************************************************************)
\* Worker objects that can exist at once (the code sets no limit).
MaxWorkers == 2
\* Number of pieces a failure message is built from.
MaxMsgPieces == 2
\* Number of pieces a prompt template is built from.
MaxPieces == 2
\* Largest degrees / minutes / seconds component of a DMS triple.
MaxDeg == 2
MaxMin == 2
MaxSec == 3

(***************************************************************************)
(* Python str operations on sequences of characters.                       *)
(***************************************************************************)
IsSpace(c) == c = " "

RECURSIVE LStrip(_)
LStrip(s) == IF s # <<>> /\ IsSpace(Head(s)) THEN LStrip(Tail(s)) ELSE s

RECURSIVE RStrip(_)
RStrip(s) ==
  IF s # <<>> /\ IsSpace(s[Len(s)]) THEN RStrip(SubSeq(s, 1, Len(s) - 1)) ELSE s

\* str.strip()
Strip(s) == RStrip(LStrip(s))

StartsWith(s, p) == Len(s) >= Len(p) /\ SubSeq(s, 1, Len(p)) = p

\* `sub in s`
RECURSIVE Contains(_, _)
Contains(s, sub) ==
  IF Len(s) < Len(sub) THEN FALSE
  ELSE StartsWith(s, sub) \/ Contains(Tail(s), sub)

\* s.replace(old, new): left-to-right, non-overlapping; old is not empty.
RECURSIVE Replace(_, _, _)
Replace(s, old, new) ==
  IF Len(s) < Len(old) THEN s
  ELSE IF StartsWith(s, old)
       THEN new \o Replace(SubSeq(s, Len(old) + 1, Len(s)), old, new)
       ELSE <<Head(s)>> \o Replace(Tail(s), old, new)

LAT_TOKEN == <<"{", "l", "a", "t", "}">>
LON_TOKEN == <<"{", "l", "o", "n", "}">>

(***************************************************************************)
(* Floats.  A value returned by round(dd, 6) is kept as sign bit and       *)
(* magnitude in millionths of a degree, so that -0.0 and 0.0 differ as     *)
(* they do in Python.  The unrounded sum degrees + minutes/60 +            *)
(* seconds/3600 of integer components is secs/3600 exactly.                *)
(***************************************************************************)
\* Python's `x < 0` on a float: -0.0 < 0 is False.
IsNegative(x) == x.neg /\ x.micro > 0

\* round(x, 6) of secs/3600: secs * 10^6 / 3600 = secs * 2500 / 9 is never
\* half-way between two integers, so rounding is to the nearest one; the
\* sign (also that of a zero) is kept.
Round6(neg, secs) == [neg |-> neg, micro |-> (secs * 5000 + 9) \div 18]

Digit(n) == <<"0", "1", "2", "3", "4", "5", "6", "7", "8", "9">>[n + 1]

RECURSIVE IntDigits(_)
IntDigits(n) == IF n < 10 THEN <<Digit(n)>> ELSE IntDigits(n \div 10) \o <<Digit(n % 10)>>

\* The digits of k/10^width after the decimal point, without trailing zeros
\* (at least one digit).
RECURSIVE FracDigits(_, _)
FracDigits(k, width) ==
  IF width = 1 THEN <<Digit(k)>>
  ELSE IF k % 10 = 0 THEN FracDigits(k \div 10, width - 1)
       ELSE FracDigits(k \div 10, width - 1) \o <<Digit(k % 10)>>

\* str(x) of a float with at most six decimals (repr is the shortest
\* decimal that reads back as x): "1.5", "0.000278", "-0.0".
FloatStr(x) ==
  (IF x.neg THEN <<"-">> ELSE <<>>)
    \o IntDigits(x.micro \div 1000000) \o <<".">> \o FracDigits(x.micro % 1000000, 6)

(***************************************************************************)
(* The EXIF GPS reader.  gps_info is the dict built at lines 236-242: `has`*)
(* is the set of keys present, the four fields the values of those keys.   *)
(* A DMS value is a sequence of numbers; one that is not of length three   *)
(* makes the unpacking at line 248 raise.                                  *)
(***************************************************************************)
\* dms_to_dd negating for the reference 'S' only.
dms_to_dd_SouthOnly(dms, ref) ==
  IF Len(dms) # 3
  THEN [raised |-> TRUE, dd |-> Round6(FALSE, 0)]
  ELSE [raised |-> FALSE,
        dd |-> Round6(ref = "S", dms[1] * 3600 + dms[2] * 60 + dms[3])]

\* dms_to_dd (lines 247-252): [raised, dd].
dms_to_dd(dms, ref) ==
  IF Len(dms) # 3
  THEN [raised |-> TRUE, dd |-> Round6(FALSE, 0)]
  ELSE [raised |-> FALSE,
        dd |-> Round6(ref \in {"S", "W"}, dms[1] * 3600 + dms[2] * 60 + dms[3])]

\* gps_info.get(key, default)
DictGet(gps_info, key, default) ==
  IF key \in gps_info.has THEN gps_info[key] ELSE default

\* _try_populate_gps setting the latitude field before it converts the
\* longitude.
TryPopulateGps_Partial(exif, lat0, lon0) ==
  LET unchanged == [lat |-> lat0, lon |-> lon0] IN
  IF exif.kind # "tags" THEN unchanged
  ELSE IF exif.gps.has = {} THEN unchanged
  ELSE IF "GPSLatitude" \notin exif.gps.has THEN unchanged
  ELSE LET lat == dms_to_dd(exif.gps.GPSLatitude,
                            DictGet(exif.gps, "GPSLatitudeRef", "N")) IN
       IF lat.raised THEN unchanged
       ELSE IF "GPSLongitude" \notin exif.gps.has
       THEN [lat |-> FloatStr(lat.dd), lon |-> lon0]
       ELSE LET lon == dms_to_dd(exif.gps.GPSLongitude,
                                 DictGet(exif.gps, "GPSLongitudeRef", "E")) IN
            IF lon.raised THEN [lat |-> FloatStr(lat.dd), lon |-> lon0]
            ELSE [lat |-> FloatStr(lat.dd), lon |-> FloatStr(lon.dd)]

\* The texts of the latitude and longitude fields after
\* _try_populate_gps(image) (lines 227-260), given the texts before.
\* exif.kind: "raises" (Image.open, _getexif or .items() raises), "none"
\* (no EXIF data), "tags" (EXIF data, gps_info possibly empty).
TryPopulateGps(exif, lat0, lon0) ==
  LET unchanged == [lat |-> lat0, lon |-> lon0] IN
  IF exif.kind # "tags" THEN unchanged
  ELSE IF exif.gps.has = {} THEN unchanged
  ELSE IF "GPSLatitude" \notin exif.gps.has THEN unchanged            \* KeyError
  ELSE LET lat == dms_to_dd(exif.gps.GPSLatitude,
                            DictGet(exif.gps, "GPSLatitudeRef", "N")) IN
       IF lat.raised THEN unchanged
       ELSE IF "GPSLongitude" \notin exif.gps.has THEN unchanged      \* KeyError
       ELSE LET lon == dms_to_dd(exif.gps.GPSLongitude,
                                 DictGet(exif.gps, "GPSLongitudeRef", "E")) IN
            IF lon.raised THEN unchanged
            ELSE [lat |-> FloatStr(lat.dd), lon |-> FloatStr(lon.dd)]

GpsInfo(has, lat, latRef, lon, lonRef) ==
  [has |-> has, GPSLatitude |-> lat, GPSLatitudeRef |-> latRef,
   GPSLongitude |-> lon, GPSLongitudeRef |-> lonRef]

NoGps == GpsInfo({}, <<>>, "", <<>>, "")

(***************************************************************************)
(* Error classification (on_analysis_error, lines 306-313).  A message is  *)
(* a sequence of atoms: single characters, and whole words that are        *)
(* treated as indivisible.                                                 *)
(***************************************************************************)
\* str.lower(), atom by atom.
LowerAtom(a) ==
  CASE a = "Timeout" -> "timeout"
    [] a = "Connection" -> "connection"
    [] a = "Network" -> "network"
    [] a = "Rate limit" -> "rate limit"
    [] a = "Incorrect API key" -> "incorrect api key"
    [] OTHER -> a

Lower(s) == [i \in 1..Len(s) |-> LowerAtom(s[i])]

AUTH_HINT == <<"Authentication failed. Please check your OpenAI API key.">>
RATE_HINT == <<"Rate limit or quota exceeded. Wait a moment or check your OpenAI billing.">>
NET_HINT == <<"Network error. Check your internet connection and try again.">>

IsAuth(m) ==
  Contains(m, <<"4", "0", "1">>) \/ Contains(m, <<"Incorrect API key">>)
    \/ Contains(m, <<"invalid_api_key">>)
IsRate(m) == Contains(m, <<"4", "2", "9">>) \/ Contains(m, <<"Rate limit">>)
IsNet(m) ==
  Contains(m, <<"Connection">>) \/ Contains(m, <<"Network">>)
    \/ Contains(Lower(m), <<"timeout">>)

\* The classification with the rate-limit test before the authentication
\* test.
user_msg_RateFirst(error_msg) ==
  IF IsRate(error_msg) THEN RATE_HINT
  ELSE IF IsAuth(error_msg) THEN AUTH_HINT
  ELSE IF IsNet(error_msg) THEN NET_HINT
  ELSE error_msg

\* The text on_analysis_error shows for a failure message (lines 306-313).
user_msg(error_msg) ==
  IF IsAuth(error_msg) THEN AUTH_HINT
  ELSE IF IsRate(error_msg) THEN RATE_HINT
  ELSE IF IsNet(error_msg) THEN NET_HINT
  ELSE error_msg

(***************************************************************************)
(* Prompt resolution (APIWorker.run, line 67).                             *)
(***************************************************************************)
ResolvePrompt(prompt_template, lat, lon) ==
  Replace(Replace(prompt_template, LAT_TOKEN, lat), LON_TOKEN, lon)

(***************************************************************************)
(* State.                                                                  *)
(***************************************************************************)
VARIABLES
  api_input,        \* text of the API key field
  image_path,       \* self.image_path (None until an image is selected)
  image_label,      \* what the preview label shows
  lat_input,        \* text of the latitude field
  lon_input,        \* text of the longitude field
  prompt_edit,      \* text of the prompt editor
  btn_analyze,      \* [enabled, text] of the submit button
  progress_bar,     \* whether the progress bar is visible
  btn_save_report,  \* whether the save-report button is enabled
  result_box,       \* text of the result box
  worker,           \* self.worker: 0 (None) or the id of an APIWorker
  workers,          \* the APIWorker objects that exist, by id
  inbox,            \* signals emitted by workers, queued for the UI thread
  modal,            \* stack of open message boxes (the last is on top)
  disk,             \* environment: the image files that can be selected
  provider,         \* environment: the messages the provider call can fail with
  dms_in,           \* input of a stand-alone dms_to_dd call
  ref_in,
  dd_out            \* its result: <<>> before the call, <<result>> after

ui == <<api_input, image_path, image_label, lat_input, lon_input, prompt_edit>>
controls == <<btn_analyze, progress_bar, btn_save_report, result_box>>
threads == <<worker, workers, inbox>>
env == <<disk, provider>>
dms == <<dms_in, ref_in, dd_out>>
vars == <<ui, controls, threads, modal, env, dms>>

None == "None"

\* DEFAULT_PROMPT (lines 16-21), reduced to the part that holds the
\* placeholders: "({lat}, {lon})".
DEFAULT_PROMPT == <<"(">> \o LAT_TOKEN \o <<",", " ">> \o LON_TOKEN \o <<")">>

NoReport == [image |-> "", lat |-> <<>>, lon |-> <<>>, prompt |-> <<>>, analysis |-> <<>>]

\* A QMessageBox; `report` is the file content written just before a
\* "Saved" box.
Box(title, text, report) == [title |-> title, text |-> text, report |-> report]

FileAt(path) == CHOOSE f \in disk : f.path = path

\* A run is in flight from worker.start() until the UI thread has handled
\* the signal it emits.
InFlight(w) ==
  /\ w \in DOMAIN workers
  /\ \/ workers[w].pc # "done"
     \/ \E i \in 1..Len(inbox) : inbox[i].w = w

Pending == {w \in DOMAIN workers : InFlight(w)}

(***************************************************************************)
(* APIWorker (lines 25-92).                                                *)
(***************************************************************************)
NoPayload == [mime_type |-> "", fmt |-> "", mode |-> ""]

\* APIWorker.__init__ (lines 30-36)
APIWorker(api_key, path, lat, lon, prompt_template) ==
  [api_key |-> api_key, image_path |-> path, lat |-> lat, lon |-> lon,
   prompt_template |-> prompt_template,
   pc |-> "start", payload |-> NoPayload, prompt_text |-> <<>>,
   response |-> <<>>, outcome |-> "none",
   nCalls |-> 0, nFinished |-> 0, nError |-> 0, deleted |-> FALSE]

\* encode_image (lines 38-57): [raised, payload].  The pixel data is not
\* modelled; the payload is its MIME type, format and colour mode.
encode_image(path) ==
  LET f == FileAt(path)
      mime_type == IF f.guessed_type = "" THEN "image/jpeg" ELSE f.guessed_type
      fmt == IF f.guessed_type = "" \/ f.format = "" THEN "JPEG" ELSE f.format
      mode == IF mime_type = "image/jpeg" /\ f.mode \in {"RGBA", "P"}
              THEN "RGB" ELSE f.mode
  IN IF ~f.decodable
     THEN [raised |-> TRUE, payload |-> NoPayload]
     ELSE [raised |-> FALSE,
           payload |-> [mime_type |-> mime_type, fmt |-> fmt, mode |-> mode]]

Emit(w, sig, arg) == Append(inbox, [sig |-> sig, arg |-> arg, w |-> w])

\* run, lines 62-65: the image is encoded; a failure goes to line 92.
WorkerEncode(w) ==
  /\ w \in DOMAIN workers
  /\ workers[w].pc = "start"
  /\ LET r == encode_image(workers[w].image_path) IN
     IF r.raised
     THEN /\ workers' = [workers EXCEPT ![w].pc = "done",
                                        ![w].outcome = "encode_failed",
                                        ![w].nError = @ + 1]
          /\ inbox' = Emit(w, "error", <<"cannot identify image file">>)
     ELSE /\ workers' = [workers EXCEPT ![w].pc = "encoded", ![w].payload = r.payload]
          /\ inbox' = inbox
  /\ UNCHANGED <<ui, controls, worker, modal, env, dms>>

\* What client.chat.completions.create can do: return a response with a
\* text, return one from which line 88 cannot take a text, or raise.
Answers == {<<"r">>, <<" ">>}

Responses ==
  {[kind |-> "ok", text |-> a] : a \in Answers}
    \cup {[kind |-> "malformed", text |-> <<"list index out of range">>]}
    \cup {[kind |-> "raise", text |-> m] : m \in provider}

\* run emitting finished before it takes the text from the response, so
\* that a response without a text is reported on both signals.
WorkerCall_EmitsBoth(w) ==
  /\ w \in DOMAIN workers
  /\ workers[w].pc = "encoded"
  /\ \E r \in Responses :
       LET prompt_text == ResolvePrompt(workers[w].prompt_template,
                                        workers[w].lat, workers[w].lon)
           called == [workers EXCEPT ![w].pc = "done",
                                     ![w].prompt_text = prompt_text,
                                     ![w].nCalls = @ + 1]
       IN IF r.kind = "ok"
          THEN /\ workers' = [called EXCEPT ![w].outcome = "ok",
                                            ![w].response = r.text,
                                            ![w].nFinished = @ + 1]
               /\ inbox' = Emit(w, "finished", r.text)
          ELSE IF r.kind = "malformed"
          THEN /\ workers' = [called EXCEPT ![w].outcome = r.kind,
                                            ![w].nFinished = @ + 1,
                                            ![w].nError = @ + 1]
               /\ inbox' = Append(Emit(w, "finished", <<>>),
                                  [sig |-> "error", arg |-> r.text, w |-> w])
          ELSE /\ workers' = [called EXCEPT ![w].outcome = r.kind,
                                            ![w].nError = @ + 1]
               /\ inbox' = Emit(w, "error", r.text)
  /\ UNCHANGED <<ui, controls, worker, modal, env, dms>>

\* run, lines 67-92: the prompt is resolved, the one call is made, and its
\* outcome is emitted.
WorkerCall(w) ==
  /\ w \in DOMAIN workers
  /\ workers[w].pc = "encoded"
  /\ \E r \in Responses :
       LET prompt_text == ResolvePrompt(workers[w].prompt_template,
                                        workers[w].lat, workers[w].lon)
           called == [workers EXCEPT ![w].pc = "done",
                                     ![w].prompt_text = prompt_text,
                                     ![w].nCalls = @ + 1]
       IN IF r.kind = "ok"
          THEN /\ workers' = [called EXCEPT ![w].outcome = "ok",
                                            ![w].response = r.text,
                                            ![w].nFinished = @ + 1]
               /\ inbox' = Emit(w, "finished", r.text)
          ELSE /\ workers' = [called EXCEPT ![w].outcome = r.kind,
                                            ![w].nError = @ + 1]
               /\ inbox' = Emit(w, "error", r.text)
  /\ UNCHANGED <<ui, controls, worker, modal, env, dms>>

(***************************************************************************)
(* ShadowDetectiveApp (lines 95-361).  A handler that opens a message box  *)
(* blocks in it until the box is dismissed; while a box is open the user   *)
(* can reach no other control.                                             *)
(***************************************************************************)
\* What the user can type into a text field.
LatTexts == {<<>>, <<" ">>, <<"1">>}
LonTexts == {<<>>, <<"2", " ">>}
ApiKeyTexts == {<<>>, <<" ">>, <<" ", "k">>}
PromptTexts == {<<>>, <<"a", "t", " ">> \o LAT_TOKEN}

EditApiKey == \E t \in ApiKeyTexts : api_input' = t /\ api_input # t
EditLat == \E t \in LatTexts : lat_input' = t /\ lat_input # t
EditLon == \E t \in LonTexts : lon_input' = t /\ lon_input # t
EditPrompt == \E t \in PromptTexts : prompt_edit' = t /\ prompt_edit # t

\* The user edits one of the text fields.
Edit ==
  /\ modal = <<>>
  /\ \/ EditApiKey /\ UNCHANGED <<lat_input, lon_input, prompt_edit>>
     \/ EditLat /\ UNCHANGED <<api_input, lon_input, prompt_edit>>
     \/ EditLon /\ UNCHANGED <<api_input, lat_input, prompt_edit>>
     \/ EditPrompt /\ UNCHANGED <<api_input, lat_input, lon_input>>
  /\ UNCHANGED <<image_path, image_label, controls, threads, modal, env, dms>>

\* "Reset to Default" (line 158)
ResetPrompt ==
  /\ modal = <<>>
  /\ prompt_edit # DEFAULT_PROMPT
  /\ prompt_edit' = DEFAULT_PROMPT
  /\ UNCHANGED <<api_input, image_path, image_label, lat_input, lon_input,
                 controls, threads, modal, env, dms>>

\* select_image (lines 199-209) with _refresh_image_preview and
\* _try_populate_gps, for a file chosen in the dialog (a cancelled dialog
\* changes nothing).
select_image ==
  /\ modal = <<>>
  /\ \E f \in disk :
       LET gps == TryPopulateGps(f.exif, lat_input, lon_input) IN
       /\ image_path' = f.path
       /\ image_label' = f.path
       /\ lat_input' = gps.lat
       /\ lon_input' = gps.lon
  /\ UNCHANGED <<api_input, prompt_edit, controls, threads, modal, env, dms>>

\* _reset_button without setEnabled(True).
_reset_button_TextOnly ==
  /\ btn_analyze' = [btn_analyze EXCEPT !.text = "Run Shadow Analysis"]
  /\ progress_bar' = FALSE

\* _reset_button (lines 318-321)
_reset_button ==
  /\ btn_analyze' = [enabled |-> TRUE, text |-> "Run Shadow Analysis"]
  /\ progress_bar' = FALSE

Warning(title, text) == Box(title, <<text>>, NoReport)

\* The ids run_analysis can give a new worker: a worker the window no
\* longer references and whose run is over is gone.
FreeIds == (1..MaxWorkers) \ Pending

\* The checks of run_analysis without the one of the prompt.
Validate_NoPromptCheck(api_key, path, lat, lon, prompt) ==
  IF api_key = <<>> THEN "Please enter your OpenAI API key."
  ELSE IF path = None THEN "Please select an image first."
  ELSE IF lat = <<>> \/ lon = <<>> THEN "Please provide both latitude and longitude."
  ELSE ""

\* The checks of run_analysis (lines 273-284): the text of the first
\* warning that applies, "" when the inputs pass.
Validate(api_key, path, lat, lon, prompt) ==
  IF api_key = <<>> THEN "Please enter your OpenAI API key."
  ELSE IF path = None THEN "Please select an image first."
  ELSE IF lat = <<>> \/ lon = <<>> THEN "Please provide both latitude and longitude."
  ELSE IF prompt = <<>> THEN "Prompt cannot be empty."
  ELSE ""

\* run_analysis leaving the submit button enabled.
SetAnalyzing_StillEnabled ==
  /\ btn_analyze' = [enabled |-> TRUE, text |-> "Analyzing shadows..."]
  /\ progress_bar' = TRUE

\* run_analysis, lines 286-288
SetAnalyzing ==
  /\ btn_analyze' = [enabled |-> FALSE, text |-> "Analyzing shadows..."]
  /\ progress_bar' = TRUE

\* run_analysis (lines 266-297); the button's clicked signal fires only
\* while the button is enabled.
run_analysis ==
  /\ modal = <<>>
  /\ btn_analyze.enabled
  /\ LET api_key == Strip(api_input)
         lat == Strip(lat_input)
         lon == Strip(lon_input)
         prompt == Strip(prompt_edit)
         warning == Validate(api_key, image_path, lat, lon, prompt)
     IN IF warning # ""
        THEN /\ modal' = Append(modal, Warning("Error", warning))
             /\ UNCHANGED <<controls, threads>>
        ELSE /\ FreeIds # {}
             /\ LET id == CHOOSE i \in FreeIds : \A j \in FreeIds : i <= j IN
                /\ SetAnalyzing
                /\ btn_save_report' = FALSE
                /\ result_box' = <<>>
                /\ worker' = id
                /\ workers' = [w \in Pending \cup {id} |->
                                 IF w = id
                                 THEN APIWorker(api_key, image_path, lat, lon, prompt)
                                 ELSE workers[w]]
                /\ UNCHANGED <<inbox, modal>>
  /\ UNCHANGED <<ui, env, dms>>

\* on_analysis_complete (lines 299-302), then worker.deleteLater, for the
\* finished signal at the head of the queue.
on_analysis_complete ==
  /\ inbox # <<>>
  /\ Head(inbox).sig = "finished"
  /\ result_box' = Head(inbox).arg
  /\ btn_save_report' = TRUE
  /\ _reset_button
  /\ workers' = [workers EXCEPT ![Head(inbox).w].deleted = TRUE]
  /\ inbox' = Tail(inbox)
  /\ UNCHANGED <<ui, worker, modal, env, dms>>

\* on_analysis_error (lines 304-315) up to the message box, for the error
\* signal at the head of the queue; _reset_button (line 316) runs when the
\* box is dismissed, worker.deleteLater after that.
on_analysis_error ==
  /\ inbox # <<>>
  /\ Head(inbox).sig = "error"
  /\ modal' = Append(modal, Box("API Error",
                                <<"An error occurred:\n">> \o user_msg(Head(inbox).arg),
                                NoReport))
  /\ workers' = [workers EXCEPT ![Head(inbox).w].deleted = TRUE]
  /\ inbox' = Tail(inbox)
  /\ UNCHANGED <<ui, controls, worker, env, dms>>

\* The report save_report builds (lines 341-355), without its timestamp.
Report ==
  [image |-> IF image_path = None THEN "N/A" ELSE image_path,
   lat |-> Strip(lat_input), lon |-> Strip(lon_input),
   prompt |-> Strip(prompt_edit), analysis |-> Strip(result_box)]

\* save_report (lines 327-361) up to its message box, for a file name
\* chosen in the dialog (a cancelled dialog changes nothing); the write
\* succeeds or raises.
save_report ==
  /\ modal = <<>>
  /\ btn_save_report
  /\ \E written \in BOOLEAN :
       modal' = Append(modal,
         IF Strip(result_box) = <<>>
         THEN Warning("Nothing to Save", "Run an analysis first.")
         ELSE IF written THEN Box("Saved", <<"Report saved to:\n">>, Report)
         ELSE Box("Save Error", <<"Could not save report:\n">>, NoReport))
  /\ UNCHANGED <<ui, controls, threads, env, dms>>

\* The user dismisses the message box on top; the handler that opened it
\* runs on.
Dismiss ==
  /\ modal # <<>>
  /\ modal' = SubSeq(modal, 1, Len(modal) - 1)
  /\ IF modal[Len(modal)].title = "API Error"
     THEN _reset_button
     ELSE UNCHANGED <<btn_analyze, progress_bar>>
  /\ UNCHANGED <<ui, btn_save_report, result_box, threads, env, dms>>

(***************************************************************************)
(* The application: the window after __init__ (lines 96-193), the user's   *)
(* actions, the worker threads and the UI thread's event loop.             *)
(***************************************************************************)
\* A photograph with a GPS block, and a file that cannot be decoded.
Files ==
  {[path |-> "a.jpg", decodable |-> TRUE, guessed_type |-> "image/jpeg",
    format |-> "JPEG", mode |-> "RGB",
    exif |-> [kind |-> "tags",
              gps |-> GpsInfo({"GPSLatitude", "GPSLatitudeRef", "GPSLongitude"},
                              <<1, 30, 0>>, "S", <<0, 0, 1>>, "")]],
   [path |-> "b.png", decodable |-> FALSE, guessed_type |-> "image/png",
    format |-> "", mode |-> "", exif |-> [kind |-> "raises", gps |-> NoGps]]}

\* Messages the provider call fails with.
ErrMsgs == {<<"4", "0", "1">>, <<"Timeout">>}

\* The window with the given texts in its fields and no run started yet.
Window(api, path, lat, lon, prompt) ==
  /\ api_input = api
  /\ image_path = path
  /\ image_label = IF path = None THEN "No image selected." ELSE path
  /\ lat_input = lat
  /\ lon_input = lon
  /\ prompt_edit = prompt
  /\ btn_analyze = [enabled |-> TRUE, text |-> "Run Shadow Analysis"]
  /\ progress_bar = FALSE
  /\ btn_save_report = FALSE
  /\ result_box = <<>>
  /\ worker = 0
  /\ workers = <<>>
  /\ inbox = <<>>
  /\ modal = <<>>

\* initUI (lines 102-193)
WindowInit == Window(<<>>, None, <<>>, <<>>, DEFAULT_PROMPT)

NoDms == dms_in = <<>> /\ ref_in = "" /\ dd_out = <<>>

Init == WindowInit /\ disk = Files /\ provider = ErrMsgs /\ NoDms

WorkerStep == \E w \in 1..MaxWorkers : WorkerEncode(w) \/ WorkerCall(w)

Next ==
  \/ Edit
  \/ ResetPrompt
  \/ select_image
  \/ run_analysis
  \/ save_report
  \/ Dismiss
  \/ WorkerStep
  \/ on_analysis_complete
  \/ on_analysis_error

Spec == Init /\ [][Next]_vars


(***************************************************************************)
(* The same application started from a window the user has filled in,      *)
(* with the inputs of one of its functions drawn from a larger set.        *)
(***************************************************************************)
\* All concatenations of at most n of the pieces P.
RECURSIVE Cat(_, _)
Cat(P, n) ==
  IF n = 0 THEN {<<>>}
  ELSE LET shorter == Cat(P, n - 1) IN
       shorter \cup {s \o p : s \in shorter, p \in P}

\* A run from submission to the end of its handler.
RunNext ==
  \/ run_analysis
  \/ WorkerStep
  \/ on_analysis_complete
  \/ on_analysis_error
  \/ Dismiss

\* Failure messages of the provider call: every marker of
\* on_analysis_error, parts of markers, and other text.
MsgPieces ==
  {<<"4", "0", "1">>, <<"4", "0">>, <<"1">>, <<"4", "2", "9">>,
   <<"Incorrect API key">>, <<"invalid_api_key">>, <<"Rate limit">>,
   <<"Connection">>, <<"Network">>, <<"timeout">>, <<"Timeout">>, <<"z">>}

Messages == Cat(MsgPieces, MaxMsgPieces)

ClassifyInit ==
  /\ Window(<<"k">>, "a.jpg", <<"1">>, <<"2">>, DEFAULT_PROMPT)
  /\ disk = Files
  /\ provider \in {{m} : m \in Messages}
  /\ NoDms

SpecClassify == ClassifyInit /\ [][RunNext]_vars

\* Prompt templates and coordinate texts with and without placeholders.
TemplatePieces == {LAT_TOKEN, LON_TOKEN, <<"x">>, <<" ">>}
Templates == Cat(TemplatePieces, MaxPieces)
CoordTexts == {<<"1">>, <<"2", ".", "5">>, LAT_TOKEN, LON_TOKEN}

PromptInit ==
  /\ \E t \in Templates, lat \in CoordTexts, lon \in CoordTexts :
       Window(<<"k">>, "a.jpg", lat, lon, t)
  /\ disk = Files
  /\ provider = ErrMsgs
  /\ NoDms

SpecPrompt == PromptInit /\ [][RunNext]_vars

\* Image files by their EXIF data: none, unreadable, or a GPS block with
\* any of its four keys missing and well- or ill-formed values.
GpsKeys == {"GPSLatitude", "GPSLatitudeRef", "GPSLongitude", "GPSLongitudeRef"}
DmsValues == {<<0, 0, 0>>, <<1, 30, 0>>, <<2, 0, 1>>, <<1, 30>>, <<>>}
LatRefs == {"N", "S", "X"}
LonRefs == {"E", "W"}

GpsBlocks ==
  {GpsInfo(has,
           IF "GPSLatitude" \in has THEN lat ELSE <<>>,
           IF "GPSLatitudeRef" \in has THEN latRef ELSE "",
           IF "GPSLongitude" \in has THEN lon ELSE <<>>,
           IF "GPSLongitudeRef" \in has THEN lonRef ELSE "") :
     has \in SUBSET GpsKeys, lat \in DmsValues, latRef \in LatRefs,
     lon \in DmsValues, lonRef \in LonRefs}

Exifs ==
  {[kind |-> "raises", gps |-> NoGps], [kind |-> "none", gps |-> NoGps]}
    \cup {[kind |-> "tags", gps |-> g] : g \in GpsBlocks}

GpsFiles ==
  {[path |-> "a.jpg", decodable |-> TRUE, guessed_type |-> "image/jpeg",
    format |-> "JPEG", mode |-> "RGB", exif |-> e] : e \in Exifs}

\* What the coordinate fields hold before the image is selected.
PriorLat == <<"9">>
PriorLon == <<"8">>

GpsInit ==
  /\ Window(<<>>, None, PriorLat, PriorLon, DEFAULT_PROMPT)
  /\ disk \in {{f} : f \in GpsFiles}
  /\ provider = ErrMsgs
  /\ NoDms

SpecGps == GpsInit /\ [][select_image]_vars

\* dms_to_dd on its own.
Triples == {<<d, m, sec>> : d \in 0..MaxDeg, m \in 0..MaxMin, sec \in 0..MaxSec}
Refs == {"N", "S", "E", "W"}

DmsConvert ==
  /\ dd_out = <<>>
  /\ dd_out' = <<dms_to_dd(dms_in, ref_in)>>
  /\ UNCHANGED <<ui, controls, threads, modal, env, dms_in, ref_in>>

DmsInit ==
  /\ WindowInit
  /\ disk = Files
  /\ provider = ErrMsgs
  /\ dms_in \in Triples
  /\ ref_in \in Refs
  /\ dd_out = <<>>

SpecDms == DmsInit /\ [][DmsConvert]_vars

(***************************************************************************)
(* Fairness: a started worker thread runs on, the event loop delivers the  *)
(* queued signals, and the user dismisses an open message box.             *)
(***************************************************************************)
LiveSpec ==
  /\ Spec
  /\ WF_vars(WorkerStep)
  /\ WF_vars(on_analysis_complete)
  /\ WF_vars(on_analysis_error)
  /\ WF_vars(Dismiss)

(***************************************************************************)
(* Properties.                                                             *)
(***************************************************************************)
TopBox == modal[Len(modal)]

ErrorBoxOpen == \E i \in 1..Len(modal) : modal[i].title = "API Error"

\* No run is pending and no failure is still being shown.
Idle == Pending = {} /\ ~ErrorBoxOpen

\* C1: at most one analysis run is in flight, and while one is the submit
\* button is disabled.
C1_SingleFlight ==
  /\ Cardinality(Pending) <= 1
  /\ Pending # {} => ~btn_analyze.enabled

\* A run is in flight, its image encoded, while the user has cleared the
\* latitude field it was started with.
C1_Witness ==
  \E w \in Pending :
    /\ workers[w].pc = "encoded"
    /\ workers[w].lat = <<"1">>
    /\ lat_input = <<>>
    /\ ~btn_analyze.enabled

AnyInputEmpty ==
  \/ Strip(api_input) = <<>>
  \/ image_path = None
  \/ Strip(lat_input) = <<>>
  \/ Strip(lon_input) = <<>>
  \/ Strip(prompt_edit) = <<>>

\* C2: a run_analysis step taken while the key, the image path, the
\* latitude, the longitude or the prompt is empty or blank only opens the
\* validation warning: no worker is created, no call is made, and the
\* submit button, the result text and the save-report button are as before.
C2_ValidationRejects ==
  [][(AnyInputEmpty /\ run_analysis) =>
       /\ UNCHANGED <<controls, threads>>
       /\ Len(modal') = Len(modal) + 1
       /\ modal'[Len(modal')].title = "Error"]_vars

\* After a successful run, a submission with a blank key has been rejected:
\* the warning is open, the result and the save-report button are kept.
C2_Witness ==
  /\ modal # <<>>
  /\ TopBox = Warning("Error", "Please enter your OpenAI API key.")
  /\ api_input = <<" ">>
  /\ result_box = <<"r">>
  /\ btn_save_report
  /\ Pending = {}

QueuedFor(w) == {i \in 1..Len(inbox) : inbox[i].w = w}

\* C3: every run emits exactly one of finished and error, once: finished
\* with the text the client returned after the one call succeeded, error
\* after a failed encoding (no call) or a failed call (one call, not
\* repeated); the completion handler receives that text.
C3_OneNotification ==
  \A w \in DOMAIN workers :
    LET r == workers[w] IN
    /\ r.nCalls <= 1
    /\ r.nFinished + r.nError = (IF r.pc = "done" THEN 1 ELSE 0)
    /\ Cardinality(QueuedFor(w)) <= 1
    /\ r.nFinished = 1 <=> r.outcome = "ok"
    /\ r.outcome = "ok" =>
         /\ r.nCalls = 1
         /\ IF QueuedFor(w) # {}
            THEN \A i \in QueuedFor(w) :
                   inbox[i].sig = "finished" /\ inbox[i].arg = r.response
            ELSE r.deleted /\ result_box = r.response
    /\ r.outcome = "encode_failed" => r.nCalls = 0 /\ r.nError = 1
    /\ r.outcome \in {"raise", "malformed"} => r.nCalls = 1 /\ r.nError = 1
    /\ r.nError = 1 => \A i \in QueuedFor(w) : inbox[i].sig = "error"

\* A run has succeeded and its answer has been delivered to the result box.
C3_Witness ==
  /\ worker \in DOMAIN workers
  /\ workers[worker].outcome = "ok"
  /\ workers[worker].nCalls = 1
  /\ workers[worker].deleted
  /\ inbox = <<>>
  /\ result_box = <<"r">>

\* C4: whenever no run is pending and no failure is being shown the submit
\* button is enabled, and every pending run leads to that state, on the
\* success path and on the failure path.
C4_BackToIdle ==
  /\ [](Idle => btn_analyze.enabled)
  /\ (Pending # {}) ~> (Idle /\ btn_analyze.enabled)

\* A run has failed, its error box has been dismissed, and the submit
\* button is enabled again.
C4_Witness ==
  /\ worker \in DOMAIN workers
  /\ workers[worker].outcome = "raise"
  /\ workers[worker].deleted
  /\ Idle
  /\ modal = <<>>
  /\ btn_analyze.enabled
  /\ ~progress_bar

\* C5: when no run is pending, the worker object the window still
\* references holds no credential.
C5_NoCredentialRetained ==
  (Idle /\ worker \in DOMAIN workers) => workers[worker].api_key = <<>>

\* The text the claim expects on_analysis_error to show.
ErrorPrefix == <<"An error occurred:\n">>

HasAuthMarker(m) ==
  \/ Contains(m, <<"4", "0", "1">>)
  \/ Contains(m, <<"Incorrect API key">>)
  \/ Contains(m, <<"invalid_api_key">>)

HasOtherMarker(m) ==
  \/ Contains(m, <<"4", "2", "9">>)
  \/ Contains(m, <<"Rate limit">>)
  \/ Contains(m, <<"Connection">>)
  \/ Contains(m, <<"Network">>)
  \/ Contains(m, <<"timeout">>)

\* "timeout" in any letter case.
HasTimeoutAnyCase(m) == \E i \in 1..Len(m) : m[i] \in {"timeout", "Timeout"}

\* The step in which the UI thread handles an error signal.
ErrorHandled == inbox # <<>> /\ Head(inbox).sig = "error" /\ inbox' = Tail(inbox)

Classified(m, shown, unmarked) ==
  /\ HasAuthMarker(m) => shown = ErrorPrefix \o AUTH_HINT /\ ~Contains(shown, m)
  /\ unmarked => shown = ErrorPrefix \o m

\* C6 as stated: a message with an authentication marker is shown as the
\* fixed authentication hint whatever else it contains, and a message with
\* none of the listed markers is shown verbatim.
C6_Original ==
  [][ErrorHandled =>
       LET m == Head(inbox).arg IN
       Classified(m, modal'[Len(modal')].text,
                  ~HasAuthMarker(m) /\ ~HasOtherMarker(m))]_vars

\* C6 as amended: the same, where "timeout" counts as a marker in any
\* letter case.
C6_Classification ==
  [][ErrorHandled =>
       LET m == Head(inbox).arg IN
       /\ Len(modal') = Len(modal) + 1
       /\ modal'[Len(modal')].title = "API Error"
       /\ Classified(m, modal'[Len(modal')].text,
                     ~HasAuthMarker(m) /\ ~HasOtherMarker(m) /\ ~HasTimeoutAnyCase(m))]_vars

\* A failure whose message holds both "401" and "429" is being shown as
\* the authentication hint.
C6_Witness ==
  /\ provider = {<<"4", "2", "9", "4", "0", "1">>}
  /\ modal # <<>>
  /\ TopBox.title = "API Error"
  /\ TopBox.text = ErrorPrefix \o AUTH_HINT

\* The EXIF data of the selected image.
SelectedExif == FileAt(image_path).exif

TripleUnusable(g, key) == key \notin g.has \/ Len(g[key]) # 3

\* No GPS block, or a latitude or longitude triple that is missing or does
\* not convert.
NoUsableTriples ==
  \/ SelectedExif.kind # "tags"
  \/ SelectedExif.gps.has = {}
  \/ TripleUnusable(SelectedExif.gps, "GPSLatitude")
  \/ TripleUnusable(SelectedExif.gps, "GPSLongitude")

\* A hemisphere reference that is missing or is not a hemisphere letter.
RefUnusable ==
  LET g == SelectedExif.gps IN
  /\ SelectedExif.kind = "tags"
  /\ g.has # {}
  /\ \/ "GPSLatitudeRef" \notin g.has
     \/ g.GPSLatitudeRef \notin {"N", "S"}
     \/ "GPSLongitudeRef" \notin g.has
     \/ g.GPSLongitudeRef \notin {"E", "W"}

FieldsUnchanged == lat_input = PriorLat /\ lon_input = PriorLon

AllOrNothing == (lat_input = PriorLat) <=> (lon_input = PriorLon)

\* The text of a coordinate converted with the reference given, or as
\* North / East when the key is missing or is no 'S' or 'W'.
ExpectedCoord(g, key, refKey) ==
  FloatStr(Round6(refKey \in g.has /\ g[refKey] \in {"S", "W"},
                  g[key][1] * 3600 + g[key][2] * 60 + g[key][3]))

\* C7 as stated: an image whose GPS block has a missing or malformed
\* triple or hemisphere reference leaves both coordinate fields unchanged,
\* and never is one field set without the other.
C7_Original ==
  image_path # None =>
    /\ (NoUsableTriples \/ RefUnusable) => FieldsUnchanged
    /\ AllOrNothing

\* C7 as amended: a missing or unconvertible latitude or longitude triple
\* leaves both fields unchanged; otherwise both fields are set, a missing
\* or unrecognised hemisphere reference being read as North / East; never
\* is one field set without the other.
C7_BestEffort ==
  image_path # None =>
    /\ NoUsableTriples => FieldsUnchanged
    /\ AllOrNothing
    /\ ~NoUsableTriples =>
         /\ lat_input = ExpectedCoord(SelectedExif.gps, "GPSLatitude", "GPSLatitudeRef")
         /\ lon_input = ExpectedCoord(SelectedExif.gps, "GPSLongitude", "GPSLongitudeRef")

\* An image with a good latitude and a longitude triple of two components
\* has been selected, and both fields are as before.
C7_Witness ==
  /\ image_path # None
  /\ SelectedExif.kind = "tags"
  /\ SelectedExif.gps.has = GpsKeys
  /\ SelectedExif.gps.GPSLatitude = <<1, 30, 0>>
  /\ SelectedExif.gps.GPSLongitude = <<1, 30>>
  /\ FieldsUnchanged

\* The prompt the claim expects: each placeholder of the template replaced,
\* in one pass, by the coordinate text as it is.
RECURSIVE Substitute(_, _, _)
Substitute(t, lat, lon) ==
  IF t = <<>> THEN <<>>
  ELSE IF StartsWith(t, LAT_TOKEN)
  THEN lat \o Substitute(SubSeq(t, Len(LAT_TOKEN) + 1, Len(t)), lat, lon)
  ELSE IF StartsWith(t, LON_TOKEN)
  THEN lon \o Substitute(SubSeq(t, Len(LON_TOKEN) + 1, Len(t)), lat, lon)
  ELSE <<Head(t)>> \o Substitute(Tail(t), lat, lon)

\* C8: the prompt sent to the client is the template with every {lat}
\* replaced by the latitude text and every {lon} by the longitude text,
\* and nothing else changed.
C8_PromptResolution ==
  \A w \in DOMAIN workers :
    workers[w].nCalls > 0 =>
      workers[w].prompt_text =
        Substitute(workers[w].prompt_template, workers[w].lat, workers[w].lon)

SecondsOf(t) == t[1] * 3600 + t[2] * 60 + t[3]

\* |micro / 10^6 - secs / 3600| <= 0.0000005
WithinRounding(micro, secs) ==
  LET d == micro * 9 - secs * 2500 IN 2 * (IF d < 0 THEN -d ELSE d) <= 9

\* C9 as stated: the result is degrees + minutes/60 + seconds/3600 (to the
\* six decimals kept), negative for every triple with reference 'S' or 'W'
\* and non-negative for 'N' and 'E'.
C9_Original ==
  dd_out # <<>> =>
    LET x == dd_out[1].dd IN
    /\ ~dd_out[1].raised
    /\ WithinRounding(x.micro, SecondsOf(dms_in))
    /\ IF ref_in \in {"S", "W"} THEN IsNegative(x) ELSE ~IsNegative(x)

\* C9 as amended: negative for every triple but the all-zero one with
\* reference 'S' or 'W'; for the all-zero triple the result is -0.0, which
\* is not negative; non-negative for 'N' and 'E'.
C9_DmsSign ==
  dd_out # <<>> =>
    LET x == dd_out[1].dd IN
    /\ ~dd_out[1].raised
    /\ WithinRounding(x.micro, SecondsOf(dms_in))
    /\ x.neg <=> ref_in \in {"S", "W"}
    /\ IsNegative(x) <=> (ref_in \in {"S", "W"} /\ SecondsOf(dms_in) > 0)

\* The all-zero triple with reference 'S' has been converted, to -0.0.
C9_Witness ==
  /\ dd_out # <<>>
  /\ dms_in = <<0, 0, 0>>
  /\ ref_in = "S"
  /\ dd_out[1].dd = [neg |-> TRUE, micro |-> 0]

\* C10: while the save-report button is enabled, the window's worker is
\* the run that succeeded last, and the report save_report writes has that
\* run's image, latitude, longitude, prompt and answer.
C10_ReportConsistency ==
  btn_save_report =>
    /\ worker \in DOMAIN workers
    /\ workers[worker].outcome = "ok"
    /\ Report = [image |-> workers[worker].image_path,
                 lat |-> workers[worker].lat,
                 lon |-> workers[worker].lon,
                 prompt |-> workers[worker].prompt_template,
                 analysis |-> Strip(workers[worker].response)]

=============================================================================
